---- MODULE Spec2Model ----
(***************************************************************************)
(* Model of the Avi load-balancer test framework: the API client           *)
(* (api_client.py), the four-stage orchestrator (test_orchestrator.py)     *)
(* and the batch strategies and setup of the framework (main.py).          *)
(*                                                                         *)
(* Python values are modelled as follows.  None is the record PyNone, a    *)
(* present value v is Some(v).  A JSON object of the remote API is a       *)
(* record [dict, name, uuid, enabled]; a field the object does not have    *)
(* holds Missing.  A listing entry that is not a JSON object (a string, a  *)
(* number, null) has dict = FALSE: calling .get on it raises.              *)
(***************************************************************************)
EXTENDS Integers, Sequences, FiniteSets, TLC

\* ------------------------------------------------------------------ bounds
NumCases == 2        \* largest batch of test cases
MaxWorkers == 2      \* largest configured parallelism.max_workers
MaxItems == 2        \* longest listing the remote returns
MaxLogins == 2       \* direct login calls after setup
MaxAuthCalls == 2    \* authenticated calls observed after a login
MaxMainCases == 1    \* largest batch of a whole run of main

\* ------------------------------------------------------------ Python values
PyNone == [isNone |-> TRUE]
Some(v) == [isNone |-> FALSE, v |-> v]
Missing == "absent"
\* an exception that leaves a method instead of a return value
Propagated == [isNone |-> TRUE, propagated |-> TRUE]
NoneStr == "None"

\* obj.get(field, default) of a JSON object
DictGet(value, default) == IF value = Missing THEN default ELSE value

\* an "enabled" value that is a non-empty JSON string instead of a boolean
EnabledString == "<str disabled>"

\* Python truthiness of an "enabled" value: true and a non-empty string are
\* truthy; false, null and the default False are falsy.
Truthy(e) == e \in {"true", EnabledString}

\* ----------------------------------------------------------- HTTP responses
\* status 0 stands for a transport failure: the session call itself raises.
TransportFailure == 0

Entry(d, n, u, e) == [dict |-> d, name |-> n, uuid |-> u, enabled |-> e]
JunkEntry == Entry(FALSE, Missing, Missing, Missing)

\* body shapes: "notjson" (response.json() raises), "null", "list" (items),
\* "envelope" ({results: items}), "badenvelope" ({results: null}),
\* "object" (a bare JSON object, obj)
Body(shape, items, obj) == [shape |-> shape, items |-> items, obj |-> obj]
NotJson == Body("notjson", <<>>, JunkEntry)
NullBody == Body("null", <<>>, JunkEntry)
ListBody(items) == Body("list", items, JunkEntry)
Envelope(items) == Body("envelope", items, JunkEntry)
BadEnvelope == Body("badenvelope", <<>>, JunkEntry)
ObjectBody(obj) == Body("object", <<>>, obj)

Response(status, body) == [status |-> status, body |-> body]

\* the element a non-list body becomes when it is wrapped into a list
AsEntry(body) ==
    IF body.shape = "object" THEN body.obj
    ELSE IF body.shape \in {"envelope", "badenvelope"}
         THEN Entry(TRUE, Missing, Missing, Missing)
         ELSE JunkEntry

\* ------------------------------------------------------------- API client
\* data if isinstance(data, list) else [data]
ListOrWrap(body) == IF body.shape = "list" THEN body.items ELSE <<AsEntry(body)>>

get_tenants(resp) ==
    IF resp.status = TransportFailure THEN PyNone
    ELSE IF resp.status = 200
         THEN IF resp.body.shape = "notjson" THEN PyNone
              ELSE Some(ListOrWrap(resp.body))
         ELSE PyNone

get_service_engines(resp) ==
    IF resp.status = TransportFailure THEN PyNone
    ELSE IF resp.status = 200
         THEN IF resp.body.shape = "notjson" THEN PyNone
              ELSE Some(ListOrWrap(resp.body))
         ELSE PyNone

\* variant: the envelope is not unwrapped
get_virtual_services_flat(resp) ==
    IF resp.status = TransportFailure THEN PyNone
    ELSE IF resp.status = 200
         THEN IF resp.body.shape = "notjson" THEN PyNone
              ELSE Some(ListOrWrap(resp.body))
         ELSE PyNone

get_virtual_services(resp) ==
    IF resp.status = TransportFailure THEN PyNone
    ELSE IF resp.status = 200
         THEN CASE resp.body.shape = "notjson" -> PyNone
                [] resp.body.shape = "envelope" -> Some(resp.body.items)
                [] resp.body.shape = "badenvelope" -> PyNone  \* len(None) raises
                [] OTHER -> Some(ListOrWrap(resp.body))
         ELSE PyNone

\* the linear scan of get_virtual_service_by_name; service.get on an entry
\* that is not an object raises, which the method turns into None
RECURSIVE ScanByName(_, _)
ScanByName(services, name) ==
    IF services = <<>> THEN PyNone
    ELSE IF ~Head(services).dict THEN PyNone
    ELSE IF Head(services).name = name THEN Some(Head(services))
    ELSE ScanByName(Tail(services), name)

Reverse(seq) == [k \in 1..Len(seq) |-> seq[Len(seq) + 1 - k]]

\* variant: the scan runs from the end of the listing
get_virtual_service_by_name_last(name, resp) ==
    LET services == get_virtual_services(resp)
    IN IF services.isNone THEN PyNone ELSE ScanByName(Reverse(services.v), name)

get_virtual_service_by_name(name, resp) ==
    LET services == get_virtual_services(resp)
    IN IF services.isNone THEN PyNone ELSE ScanByName(services.v, name)

\* variant: the method has no except branch
JsonOrNone_unguarded(resp) ==
    IF resp.status = TransportFailure THEN Propagated
    ELSE IF resp.status = 200
         THEN IF resp.body.shape = "notjson" THEN Propagated
              ELSE IF resp.body.shape = "null" THEN PyNone
              ELSE Some(resp.body)
         ELSE PyNone

\* response.json() of an item endpoint: JSON null parses to None
JsonOrNone(resp) ==
    IF resp.status = TransportFailure THEN PyNone
    ELSE IF resp.status = 200
         THEN IF resp.body.shape \in {"notjson", "null"} THEN PyNone
              ELSE Some(resp.body)
         ELSE PyNone

get_virtual_service_by_uuid(uuid, resp) == JsonOrNone(resp)

update_virtual_service(uuid, payload, resp) == JsonOrNone(resp)

\* token values: NoneStr is an unset token, IntToken a JSON number, "" the
\* empty string
IntToken == "<int 12345>"
TokenTruthy(t) == t \notin {NoneStr, ""}
Sliceable(t) == t \notin {NoneStr, IntToken}

NoAuthorization == [present |-> FALSE, token |-> NoneStr]
Bearer(t) == [present |-> TRUE, token |-> t]

_get_headers(tok) ==
    [content_type |-> "application/json",
     authorization |-> IF TokenTruthy(tok) THEN Bearer(tok) ELSE NoAuthorization]

\* body of a login response: shape "notjson", "list", "null" or "object";
\* tokfield is the object's token field (Missing when it has none, NoneStr
\* when it is null)
LoginBody(shape, tokfield) == [shape |-> shape, tokfield |-> tokfield]

register(resp) ==
    IF resp.status = TransportFailure THEN FALSE
    ELSE IF resp.status = 200 THEN TRUE
    ELSE IF resp.status = 409 THEN TRUE
    ELSE FALSE

\* login: the value returned and the token the client holds afterwards.
\* The token is assigned before the log line slices it, so a token that
\* cannot be sliced is stored and the call still returns False.
login(tok, resp) ==
    IF resp.status = TransportFailure THEN [ret |-> FALSE, token |-> tok]
    ELSE IF resp.status = 200
         THEN IF resp.body.shape # "object"
              THEN [ret |-> FALSE, token |-> tok]
              ELSE LET t == DictGet(resp.body.tokfield, NoneStr)
                   IN [ret |-> Sliceable(t), token |-> t]
         ELSE [ret |-> FALSE, token |-> tok]

\* ------------------------------------------------------------ orchestrator
StageNames == {"pre_fetcher", "pre_validation", "task_trigger", "post_validation"}
NotExecuted == [absent |-> TRUE]
\* variant: an orchestrator that starts with a result of stage 4 left over
InitialResults_stale ==
    [s \in StageNames |-> IF s = "post_validation" THEN [status |-> "success"] ELSE NotExecuted]
InitialResults == [s \in StageNames |-> NotExecuted]

ExceptionResult == [status |-> "failed", error |-> "exception"]

\* one call of an api_client method as the orchestrator sees it: the method
\* raises (api_client is None or a test double), or it is the APIClient
\* method applied to the HTTP response resp
Raises == [raises |-> TRUE, resp |-> Response(TransportFailure, NotJson)]
Returns(resp) == [raises |-> FALSE, resp |-> resp]

\* variant: a listing that is absent is counted as one
Count_one(ret) == IF ret.isNone THEN 1 ELSE Len(ret.v)

\* len(x) if x else 0
Count(ret) == IF ret.isNone THEN 0 ELSE Len(ret.v)

HasJunk(ret) == ~ret.isNone /\ \E k \in 1..Len(ret.v) : ~ret.v[k].dict

\* variant: a fetch that raises is swallowed and counted as an empty listing
stage_1_pre_fetcher_swallow(e1, e2, e3) ==
    IF e1.raises \/ e2.raises \/ e3.raises
    THEN [status |-> "success", tenants_count |-> 0, virtual_services_count |-> 0,
          service_engines_count |-> 0]
    ELSE [status |-> "success",
          tenants_count |-> Count(get_tenants(e1.resp)),
          virtual_services_count |-> Count(get_virtual_services(e2.resp)),
          service_engines_count |-> Count(get_service_engines(e3.resp))]

stage_1_pre_fetcher(e1, e2, e3) ==
    IF e1.raises \/ e2.raises \/ e3.raises THEN ExceptionResult
    ELSE LET tenants == get_tenants(e1.resp)
             virtual_services == get_virtual_services(e2.resp)
             service_engines == get_service_engines(e3.resp)
         IN IF HasJunk(virtual_services) THEN ExceptionResult
            ELSE [status |-> "success",
                  tenants_count |-> Count(tenants),
                  virtual_services_count |-> Count(virtual_services),
                  service_engines_count |-> Count(service_engines)]

\* number of fetches stage 1 issues: a fetch that raises ends the stage
Stage1Fetches(e1, e2, e3) == IF e1.raises THEN 1 ELSE IF e2.raises THEN 2 ELSE 3

stage_2_pre_validation(target_vs_name, e) ==
    IF e.raises THEN ExceptionResult
    ELSE LET target_vs == get_virtual_service_by_name(target_vs_name, e.resp)
         IN IF target_vs.isNone
            THEN [status |-> "failed", error |-> "not found"]
            ELSE LET is_enabled == DictGet(target_vs.v.enabled, "false")
                     uuid == DictGet(target_vs.v.uuid, NoneStr)
                 IN IF ~Truthy(is_enabled)
                    THEN [status |-> "failed", error |-> "Virtual service is not enabled",
                          virtual_service |-> target_vs.v]
                    ELSE [status |-> "success", virtual_service |-> target_vs.v,
                          uuid |-> uuid, enabled |-> is_enabled]

\* response.get('enabled', True) of a parsed body that is a JSON object
EnabledOf(body) == IF body.shape = "object" THEN DictGet(body.obj.enabled, "true") ELSE "true"
IsDictBody(body) == body.shape \in {"object", "envelope", "badenvelope"}

\* variant: the failures of stage 3 carry no error message
stage_3_task_trigger_bare(uuid, e) ==
    IF e.raises THEN [status |-> "failed"]
    ELSE LET response == update_virtual_service(uuid, "false", e.resp)
         IN IF response.isNone
            THEN [status |-> "failed"]
            ELSE IF ~IsDictBody(response.v) THEN ExceptionResult
            ELSE IF Truthy(EnabledOf(response.v))
                 THEN [status |-> "failed", error |-> "Virtual service was not disabled"]
                 ELSE [status |-> "success", enabled |-> EnabledOf(response.v)]

stage_3_task_trigger(uuid, e) ==
    IF e.raises THEN ExceptionResult
    ELSE LET response == update_virtual_service(uuid, "false", e.resp)
         IN IF response.isNone
            THEN [status |-> "failed", error |-> "Failed to update virtual service"]
            ELSE IF ~IsDictBody(response.v) THEN ExceptionResult
            ELSE IF Truthy(EnabledOf(response.v))
                 THEN [status |-> "failed", error |-> "Virtual service was not disabled"]
                 ELSE [status |-> "success", enabled |-> EnabledOf(response.v)]

\* variant: the re-fetch check is inverted
stage_4_post_validation_inverted(uuid, e) ==
    IF e.raises THEN ExceptionResult
    ELSE LET response == get_virtual_service_by_uuid(uuid, e.resp)
         IN IF response.isNone
            THEN [status |-> "failed", error |-> "Failed to fetch virtual service"]
            ELSE IF ~IsDictBody(response.v) THEN ExceptionResult
            ELSE IF ~Truthy(EnabledOf(response.v))
                 THEN [status |-> "failed", error |-> "Virtual service is still enabled"]
                 ELSE [status |-> "success", enabled |-> EnabledOf(response.v)]

stage_4_post_validation(uuid, e) ==
    IF e.raises THEN ExceptionResult
    ELSE LET response == get_virtual_service_by_uuid(uuid, e.resp)
         IN IF response.isNone
            THEN [status |-> "failed", error |-> "Failed to fetch virtual service"]
            ELSE IF ~IsDictBody(response.v) THEN ExceptionResult
            ELSE IF Truthy(EnabledOf(response.v))
                 THEN [status |-> "failed", error |-> "Virtual service is still enabled"]
                 ELSE [status |-> "success", enabled |-> EnabledOf(response.v)]

\* variant: a stage that was not executed counts against the verdict
_print_summary_strict(test_results) ==
    IF \A s \in StageNames :
          test_results[s] # NotExecuted /\ test_results[s].status = "success"
    THEN "PASSED" ELSE "FAILED"

\* the overall verdict printed by _print_summary
_print_summary(test_results) ==
    IF \A s \in StageNames :
          test_results[s] # NotExecuted => test_results[s].status = "success"
    THEN "PASSED" ELSE "FAILED"

\* --------------------------------------------------------------- framework
VARIABLES
    phase,         \* "ready", "running" or "returned": progress of run_tests;
                   \* "client" while only the API client is exercised
    method,        \* the parallelism method handed to run_tests
    max_workers,   \* ConfigLoader.get_max_workers()
    test_cases,    \* ConfigLoader.get_test_cases()
    pc,            \* per test case: "pending", "stage2", "stage3", "stage4", "done"
    test_results,  \* per test case: the orchestrator's test_results
    uuid,          \* per test case: the local uuid of run_full_workflow
    summary,       \* per test case: the verdict _print_summary printed, or "none"
    calls,         \* per test case: the api_client methods invoked, in order
    outcome,       \* per test case: what run_test_case returned
    finished,      \* the test cases in the order their run_test_case returned
    results,       \* the list the strategy accumulates and run_tests returns
    token,         \* APIClient.token
    config,        \* base_url, username and password of the loaded document
    api_client,    \* TestFramework.api_client: "None" or "client"
    setup_ret,     \* what setup returned: "None" (not called), "True", "False"
    requests,      \* requests sent during setup and direct client calls
    last_login,    \* the last login call: response, token before, value returned
    logins,        \* number of login calls made so far
    api_call,      \* one direct call of an APIClient method: input and value returned
    exit_code,     \* the exit code of the process, NotExited while it runs
    accessor_call, \* one call of a ConfigLoader accessor: document and outcome
    remote         \* the remote API's virtual services by uuid: enabled flag
                   \* at the start of the batch and now

batch_vars == <<phase, method, max_workers, test_cases, pc, test_results, uuid,
                summary, calls, outcome, finished, results>>
process_vars == <<api_call, exit_code, accessor_call, remote>>
client_vars == <<config, api_client, setup_ret, requests, last_login, logins, process_vars>>
vars == <<batch_vars, client_vars, token>>

Methods == {"sequential", "threading", "multiprocessing", "asyncio"}
DefaultTargetVS == "backend-vs-t1r_1000-1"
OtherVS == "vs-a"
\* size of the default executor asyncio.to_thread uses: min(32, cpus + 4)
AsyncioWorkers == 5

Cases == 1..Len(test_cases)
NoOutcome == [absent |-> TRUE]

TestName(tc) == DictGet(tc.name, "unknown")
\* test_case.get('target_virtual_service', config_loader.get_target_virtual_service())
TargetOf(tc) == DictGet(tc.target_virtual_service, DefaultTargetVS)

\* result.get(field): None when the result has no such field
ResultGet(result, field) == IF field \in DOMAIN result THEN result[field] ELSE NoneStr

\* one invocation of an api_client method by a stage: what was asked, the
\* headers an APIClient attaches, and what came back (kept for the item
\* endpoint only; a listing is logged as NotKept)
NotKept == Returns(Response(-1, NotJson))

\* what a listing method made of the response: absent (None), and whether the
\* list it returned holds an entry that is not an object
Listed(op, e) ==
    CASE op = "get_tenants" -> get_tenants(e.resp)
      [] op = "get_service_engines" -> get_service_engines(e.resp)
      [] OTHER -> get_virtual_services(e.resp)
ListingAbsent(op, e) == ~e.raises /\ Listed(op, e).isNone
ListingJunk(op, e) == ~e.raises /\ HasJunk(Listed(op, e))

Call(stage, op, id, payload, e, kept) ==
    [stage |-> stage, op |-> op, uuid |-> id, payload |-> payload,
     authorization |-> _get_headers(token).authorization,
     raised |-> e.raises, event |-> IF kept THEN e ELSE NotKept,
     absent |-> IF kept THEN FALSE ELSE ListingAbsent(op, e),
     junk |-> IF kept THEN FALSE ELSE ListingJunk(op, e)]

\* variant: the worker of a workflow that stopped early is never released
InProgress_leak ==
    Cardinality({j \in Cases : \/ pc[j] \in {"stage2", "stage3", "stage4"}
                               \/ pc[j] = "done" /\ test_results[j]["task_trigger"] = NotExecuted})

InProgress == Cardinality({j \in Cases : pc[j] \in {"stage2", "stage3", "stage4"}})

\* variant: the pool starts a thread for every submitted test case
CanStart_unbounded(i) ==
    /\ \A j \in Cases : j < i => pc[j] # "pending"
    /\ method = "sequential" => Len(results) = i - 1

\* a worker is free to take test case i off the queue
CanStart(i) ==
    /\ \A j \in Cases : j < i => pc[j] # "pending"
    /\ CASE method = "sequential" -> Len(results) = i - 1
         [] method \in {"threading", "multiprocessing"} -> InProgress < max_workers
         [] OTHER -> InProgress < AsyncioWorkers

\* the TestCaseOutcome of a workflow that returned
run_test_case(tc, result) ==
    [test_name |-> TestName(tc), status |-> "completed", results |-> result]

\* variant: an unknown method falls back to a strategy
run_tests_lenient ==
    /\ phase = "ready"
    /\ phase' = IF test_cases = <<>> THEN "returned" ELSE "running"
    /\ UNCHANGED <<method, max_workers, test_cases, pc, test_results, uuid, summary,
                   calls, outcome, finished, results, client_vars, token>>

\* run_tests picks the strategy, or returns [] without dispatching
run_tests ==
    /\ phase = "ready"
    /\ phase' = IF test_cases = <<>> \/ method \notin Methods THEN "returned" ELSE "running"
    /\ UNCHANGED <<method, max_workers, test_cases, pc, test_results, uuid, summary,
                   calls, outcome, finished, results, client_vars, token>>

\* variant: the orchestrators share one test_results dictionary
Stage1_shared(i, e1, e2, e3) ==
    /\ phase = "running"
    /\ pc[i] = "pending"
    /\ CanStart(i)
    /\ test_results' = [j \in Cases |->
           [test_results[j] EXCEPT !["pre_fetcher"] = stage_1_pre_fetcher(e1, e2, e3)]]
    /\ calls' = [calls EXCEPT ![i] =
           SubSeq(<<Call("pre_fetcher", "get_tenants", NoneStr, NoneStr, e1, FALSE),
                    Call("pre_fetcher", "get_virtual_services", NoneStr, NoneStr, e2, FALSE),
                    Call("pre_fetcher", "get_service_engines", NoneStr, NoneStr, e3, FALSE)>>,
                  1, Stage1Fetches(e1, e2, e3))]
    /\ pc' = [pc EXCEPT ![i] = "stage2"]
    /\ UNCHANGED <<phase, method, max_workers, test_cases, uuid, summary, outcome,
                   finished, results, client_vars, token>>

\* a worker takes test case i: a fresh orchestrator, then stage 1
Stage1(i, e1, e2, e3) ==
    /\ phase = "running"
    /\ pc[i] = "pending"
    /\ CanStart(i)
    /\ test_results' = [test_results EXCEPT
           ![i] = [InitialResults EXCEPT !["pre_fetcher"] = stage_1_pre_fetcher(e1, e2, e3)]]
    /\ calls' = [calls EXCEPT ![i] =
           SubSeq(<<Call("pre_fetcher", "get_tenants", NoneStr, NoneStr, e1, FALSE),
                    Call("pre_fetcher", "get_virtual_services", NoneStr, NoneStr, e2, FALSE),
                    Call("pre_fetcher", "get_service_engines", NoneStr, NoneStr, e3, FALSE)>>,
                  1, Stage1Fetches(e1, e2, e3))]
    /\ pc' = [pc EXCEPT ![i] = "stage2"]
    /\ UNCHANGED <<phase, method, max_workers, test_cases, uuid, summary, outcome,
                   finished, results, client_vars, token>>

\* variant: the workflow goes on after any pre-validation result
StopsAfterPreValidation_never(pre_validation) == FALSE

\* if pre_validation['status'] != 'success': return self.test_results
StopsAfterPreValidation(pre_validation) == pre_validation.status # "success"

\* variant: a listing fetch that failed is issued a second time
Stage2_retry(i, e) ==
    /\ phase = "running"
    /\ pc[i] = "stage2"
    /\ LET pre_validation == stage_2_pre_validation(TargetOf(test_cases[i]), e)
           tr == [test_results[i] EXCEPT !["pre_validation"] = pre_validation]
       IN /\ test_results' = [test_results EXCEPT ![i] = tr]
          /\ IF StopsAfterPreValidation(pre_validation)
             THEN /\ pc' = [pc EXCEPT ![i] = "done"]
                  /\ outcome' = [outcome EXCEPT ![i] = run_test_case(test_cases[i], tr)]
                  /\ finished' = Append(finished, i)
                  /\ uuid' = uuid
             ELSE /\ pc' = [pc EXCEPT ![i] = "stage3"]
                  /\ uuid' = [uuid EXCEPT ![i] = ResultGet(pre_validation, "uuid")]
                  /\ UNCHANGED <<outcome, finished>>
    /\ calls' = [calls EXCEPT ![i] =
           IF e.raises \/ e.resp.status # 200
           THEN @ \o <<Call("pre_validation", "get_virtual_services", NoneStr, NoneStr, e, FALSE),
                       Call("pre_validation", "get_virtual_services", NoneStr, NoneStr, e, FALSE)>>
           ELSE Append(@, Call("pre_validation", "get_virtual_services", NoneStr, NoneStr,
                               e, FALSE))]
    /\ UNCHANGED <<phase, method, max_workers, test_cases, summary, results,
                   client_vars, token>>

\* stage 2, and the early return of run_full_workflow when it did not succeed
Stage2(i, e) ==
    /\ phase = "running"
    /\ pc[i] = "stage2"
    /\ LET pre_validation == stage_2_pre_validation(TargetOf(test_cases[i]), e)
           tr == [test_results[i] EXCEPT !["pre_validation"] = pre_validation]
       IN /\ test_results' = [test_results EXCEPT ![i] = tr]
          /\ IF StopsAfterPreValidation(pre_validation)
             THEN /\ pc' = [pc EXCEPT ![i] = "done"]
                  /\ outcome' = [outcome EXCEPT ![i] = run_test_case(test_cases[i], tr)]
                  /\ finished' = Append(finished, i)
                  /\ uuid' = uuid
             ELSE /\ pc' = [pc EXCEPT ![i] = "stage3"]
                  /\ uuid' = [uuid EXCEPT ![i] = ResultGet(pre_validation, "uuid")]
                  /\ UNCHANGED <<outcome, finished>>
    /\ calls' = [calls EXCEPT ![i] =
           Append(@, Call("pre_validation", "get_virtual_services", NoneStr, NoneStr, e, FALSE))]
    /\ UNCHANGED <<phase, method, max_workers, test_cases, summary, results,
                   client_vars, token>>

\* variant: stage 4 is skipped when stage 3 did not succeed
Stage3_gated(i, e, r) ==
    /\ phase = "running"
    /\ pc[i] = "stage3"
    /\ LET tr == [test_results[i] EXCEPT !["task_trigger"] = stage_3_task_trigger(uuid[i], e)]
       IN /\ test_results' = [test_results EXCEPT ![i] = tr]
          /\ IF tr["task_trigger"].status = "success"
             THEN /\ pc' = [pc EXCEPT ![i] = "stage4"]
                  /\ UNCHANGED <<outcome, finished>>
             ELSE /\ pc' = [pc EXCEPT ![i] = "done"]
                  /\ outcome' = [outcome EXCEPT ![i] = run_test_case(test_cases[i], tr)]
                  /\ finished' = Append(finished, i)
    /\ calls' = [calls EXCEPT ![i] =
           Append(@, Call("task_trigger", "update_virtual_service", uuid[i], "false", e, TRUE))]
    /\ remote' = r
    /\ UNCHANGED <<phase, method, max_workers, test_cases, uuid, summary,
                   results, config, api_client, setup_ret,
                   requests, last_login, logins, api_call, exit_code, accessor_call, token>>

Stage3(i, e, r) ==
    /\ phase = "running"
    /\ pc[i] = "stage3"
    /\ test_results' = [test_results EXCEPT
           ![i]["task_trigger"] = stage_3_task_trigger(uuid[i], e)]
    /\ calls' = [calls EXCEPT ![i] =
           Append(@, Call("task_trigger", "update_virtual_service", uuid[i], "false", e, TRUE))]
    /\ pc' = [pc EXCEPT ![i] = "stage4"]
    /\ remote' = r
    /\ UNCHANGED <<phase, method, max_workers, test_cases, uuid, summary, outcome,
                   finished, results, config, api_client, setup_ret,
                   requests, last_login, logins, api_call, exit_code, accessor_call, token>>

\* variant: stage 4 logs in again before it re-fetches
Stage4_relogin(i, e) ==
    /\ phase = "running"
    /\ pc[i] = "stage4"
    /\ LET tr == [test_results[i] EXCEPT
                     !["post_validation"] = stage_4_post_validation(uuid[i], e)]
       IN /\ test_results' = [test_results EXCEPT ![i] = tr]
          /\ summary' = [summary EXCEPT ![i] = _print_summary(tr)]
          /\ outcome' = [outcome EXCEPT ![i] = run_test_case(test_cases[i], tr)]
    /\ calls' = [calls EXCEPT ![i] =
           Append(@, Call("post_validation", "get_virtual_service_by_uuid", uuid[i], NoneStr,
                          e, TRUE))]
    /\ pc' = [pc EXCEPT ![i] = "done"]
    /\ finished' = Append(finished, i)
    /\ token' = "tokB"
    /\ UNCHANGED <<phase, method, max_workers, test_cases, uuid, results, client_vars>>

\* stage 4, then the summary and the return of run_full_workflow
Stage4(i, e) ==
    /\ phase = "running"
    /\ pc[i] = "stage4"
    /\ LET tr == [test_results[i] EXCEPT
                     !["post_validation"] = stage_4_post_validation(uuid[i], e)]
       IN /\ test_results' = [test_results EXCEPT ![i] = tr]
          /\ summary' = [summary EXCEPT ![i] = _print_summary(tr)]
          /\ outcome' = [outcome EXCEPT ![i] = run_test_case(test_cases[i], tr)]
    /\ calls' = [calls EXCEPT ![i] =
           Append(@, Call("post_validation", "get_virtual_service_by_uuid", uuid[i], NoneStr,
                          e, TRUE))]
    /\ pc' = [pc EXCEPT ![i] = "done"]
    /\ finished' = Append(finished, i)
    /\ UNCHANGED <<phase, method, max_workers, test_cases, uuid, results,
                   client_vars, token>>

\* variant: results are taken as the futures complete
FutureToAwait_completion ==
    IF Len(finished) > Len(results) THEN finished[Len(results) + 1] ELSE Len(results) + 1

\* the future whose result the strategy appends next: futures are awaited in
\* submission order
FutureToAwait == Len(results) + 1

\* results.append(future.result()) of the sequential, threading and
\* multiprocessing strategies; the strategy returns after the last one
Collect ==
    /\ phase = "running"
    /\ method # "asyncio"
    /\ FutureToAwait \in Cases
    /\ pc[FutureToAwait] = "done"
    /\ results' = Append(results, outcome[FutureToAwait])
    /\ phase' = IF Len(results') = Len(test_cases) THEN "returned" ELSE "running"
    /\ UNCHANGED <<method, max_workers, test_cases, pc, test_results, uuid, summary,
                   calls, outcome, finished, client_vars, token>>

\* asyncio.gather: all results at once, in the order of the tasks
Gather ==
    /\ phase = "running"
    /\ method = "asyncio"
    /\ \A i \in Cases : pc[i] = "done"
    /\ results' = [k \in Cases |-> outcome[k]]
    /\ phase' = "returned"
    /\ UNCHANGED <<method, max_workers, test_cases, pc, test_results, uuid, summary,
                   calls, outcome, finished, client_vars, token>>

\* ------------------------------------------------------------------- setup
NoLogin == [called |-> FALSE]
Falsy(v) == v \in {Missing, ""}
BoolStr(b) == IF b THEN "True" ELSE "False"

Request(op, tok, ret) ==
    [op |-> op, authorization |-> _get_headers(tok).authorization, ret |-> ret]

\* variant: a failed registration aborts setup
setup_strict(reg_resp, login_resp) ==
    /\ phase = "client"
    /\ setup_ret = "None"
    /\ IF Falsy(config.base_url) \/ Falsy(config.username) \/ Falsy(config.password)
       THEN /\ setup_ret' = "False"
            /\ UNCHANGED <<api_client, requests, last_login, logins, token>>
       ELSE IF ~register(reg_resp)
       THEN /\ setup_ret' = "False"
            /\ api_client' = "client"
            /\ requests' = <<[op |-> "register", authorization |-> NoAuthorization,
                              ret |-> FALSE]>>
            /\ UNCHANGED <<last_login, logins, token>>
       ELSE LET l == login(NoneStr, login_resp)
            IN /\ api_client' = "client"
               /\ requests' = <<[op |-> "register", authorization |-> NoAuthorization,
                                 ret |-> register(reg_resp)],
                               [op |-> "login", authorization |-> NoAuthorization,
                                 ret |-> l.ret]>>
               /\ token' = l.token
               /\ last_login' = [called |-> TRUE, resp |-> login_resp,
                                 before |-> NoneStr, ret |-> l.ret]
               /\ logins' = 1
               /\ setup_ret' = BoolStr(l.ret)
    /\ UNCHANGED <<batch_vars, config, process_vars>>

\* TestFramework.setup: the field check, the client, register, then login
setup(reg_resp, login_resp) ==
    /\ phase = "client"
    /\ setup_ret = "None"
    /\ IF Falsy(config.base_url) \/ Falsy(config.username) \/ Falsy(config.password)
       THEN /\ setup_ret' = "False"
            /\ UNCHANGED <<api_client, requests, last_login, logins, token>>
       ELSE LET l == login(NoneStr, login_resp)
            IN /\ api_client' = "client"
               /\ requests' = <<[op |-> "register", authorization |-> NoAuthorization,
                                 ret |-> register(reg_resp)],
                               [op |-> "login", authorization |-> NoAuthorization,
                                 ret |-> l.ret]>>
               /\ token' = l.token
               /\ last_login' = [called |-> TRUE, resp |-> login_resp,
                                 before |-> NoneStr, ret |-> l.ret]
               /\ logins' = 1
               /\ setup_ret' = BoolStr(l.ret)
    /\ UNCHANGED <<batch_vars, config, process_vars>>

\* a later call of APIClient.login on the same client
Login(resp) ==
    /\ phase = "client"
    /\ api_client = "client"
    /\ logins <= MaxLogins
    /\ LET l == login(token, resp)
       IN /\ token' = l.token
          /\ last_login' = [called |-> TRUE, resp |-> resp, before |-> token, ret |-> l.ret]
          /\ requests' = Append(requests, [op |-> "login", authorization |-> NoAuthorization,
                                           ret |-> l.ret])
    /\ logins' = logins + 1
    /\ UNCHANGED <<batch_vars, config, api_client, setup_ret, process_vars>>

AuthCallsSent == Cardinality({k \in 1..Len(requests) : requests[k].op = "get"})

\* an authenticated call (any get_* or update): its headers are _get_headers()
AuthenticatedCall ==
    /\ phase = "client"
    /\ api_client = "client"
    /\ AuthCallsSent < MaxAuthCalls
    /\ requests' = Append(requests, Request("get", token, FALSE))
    /\ UNCHANGED <<batch_vars, config, api_client, setup_ret, last_login, logins, token,
                   process_vars>>

\* --------------------------------------------------- inputs of the remote API
ListingEntries ==
    {Entry(TRUE, n, u, e) : n \in {DefaultTargetVS, OtherVS}, u \in {"u1", Missing},
                            e \in {"true", "false", Missing, EnabledString}}
      \cup {JunkEntry}

Listings == UNION {[1..n -> ListingEntries] : n \in 0..MaxItems}

FailureResponses == {Response(500, NotJson), Response(TransportFailure, NotJson)}

ListingResponses ==
    {Response(200, b) : b \in {NotJson, NullBody, BadEnvelope}}
      \cup {Response(200, ListBody(l)) : l \in Listings}
      \cup {Response(200, Envelope(l)) : l \in Listings}
      \cup {Response(200, ObjectBody(o)) : o \in ListingEntries \ {JunkEntry}}
      \cup FailureResponses

OpaqueObject == Entry(TRUE, Missing, Missing, Missing)
OpaqueResponses ==
    {Response(200, ListBody(<<>>)), Response(200, ObjectBody(OpaqueObject)),
     Response(500, NotJson)}

ItemResponses ==
    {Response(200, ObjectBody(Entry(TRUE, DefaultTargetVS, "u1", e))) :
         e \in {"true", "false", "null", Missing}}
      \cup {Response(200, b) : b \in {NotJson, NullBody, ListBody(<<>>)}}
      \cup FailureResponses

Events(responses) == {Raises} \cup {Returns(r) : r \in responses}

\* the remote of a batch: one listing that holds both targets, enabled
GoodListing == <<Entry(TRUE, DefaultTargetVS, "u1", "true"), Entry(TRUE, OtherVS, "u2", "true")>>
BatchListingEvents ==
    {Raises, Returns(Response(200, ListBody(GoodListing))), Returns(Response(500, NotJson))}
BatchOpaqueEvents == {Returns(Response(200, ListBody(<<OpaqueObject>>)))}
BatchUpdateEvents ==
    {Raises, Returns(Response(500, NotJson)),
     Returns(Response(200, ObjectBody(Entry(TRUE, DefaultTargetVS, "u1", "false"))))}
BatchItemEvents ==
    {Returns(Response(200, ObjectBody(Entry(TRUE, DefaultTargetVS, "u1", e)))) :
         e \in {"true", "false"}}

LoginResponses ==
    {Response(200, LoginBody("object", t)) : t \in {Missing, NoneStr, "", "tokA", "tokB", IntToken}}
      \cup {Response(200, LoginBody(sh, Missing)) : sh \in {"notjson", "list"}}
      \cup {Response(401, LoginBody("notjson", Missing)),
            Response(TransportFailure, LoginBody("notjson", Missing))}

RegisterResponses == {Response(st, NotJson) : st \in {200, 409, 500, TransportFailure}}

\* ------------------------------------------------------------ specifications
CaseName(i) == "tc" \o ToString(i)
\* the test cases of a batch of n: names tc1.., targets alternating between
\* the configuration-wide default and an explicit one
BatchCases(n) ==
    [i \in 1..n |-> [name |-> CaseName(i),
                     target_virtual_service |-> IF i % 2 = 1 THEN Missing ELSE OtherVS]]

ConfiguredDoc == [base_url |-> "value", username |-> "value", password |-> "value"]

BatchStart(cases) ==
    /\ test_cases = cases
    /\ pc = [i \in 1..Len(cases) |-> "pending"]
    /\ test_results = [i \in 1..Len(cases) |-> InitialResults]
    /\ uuid = [i \in 1..Len(cases) |-> NoneStr]
    /\ summary = [i \in 1..Len(cases) |-> "none"]
    /\ calls = [i \in 1..Len(cases) |-> <<>>]
    /\ outcome = [i \in 1..Len(cases) |-> NoOutcome]
    /\ finished = <<>>
    /\ results = <<>>

\* no direct client call is observed and the process has not exited
NoCall == [called |-> FALSE]
NotExited == -1
\* the virtual services of the remote, by uuid: u1 is the default target, u2
\* the other one; both enabled
RemoteIds == {"u1", "u2"}
EnabledRemote == [u \in RemoteIds |-> [initially |-> "true", enabled |-> "true"]]
ProcessStart ==
    /\ api_call = NoCall
    /\ exit_code = NotExited
    /\ accessor_call = NoCall
    /\ remote = EnabledRemote

AfterSetup ==
    /\ ProcessStart
    /\ token = "tokA"
    /\ config = ConfiguredDoc
    /\ api_client = "client"
    /\ setup_ret = "True"
    /\ requests = <<>>
    /\ last_login = NoLogin
    /\ logins = 0

\* a batch: setup succeeded, run_tests is about to be called
Init ==
    /\ phase = "ready"
    /\ method \in Methods \cup {"bogus"}
    /\ max_workers \in 1..MaxWorkers
    /\ \E n \in 0..NumCases : BatchStart(BatchCases(n))
    /\ AfterSetup

Next ==
    \/ run_tests
    \/ \E i \in Cases : \E e1 \in {Raises} \cup BatchOpaqueEvents :
          \E e2 \in BatchOpaqueEvents : \E e3 \in BatchOpaqueEvents : Stage1(i, e1, e2, e3)
    \/ \E i \in Cases : \E e \in BatchListingEvents : Stage2(i, e)
    \/ \E i \in Cases : \E e \in BatchUpdateEvents : Stage3(i, e, remote)
    \/ \E i \in Cases : \E e \in BatchItemEvents : Stage4(i, e)
    \/ Collect
    \/ Gather

Spec == Init /\ [][Next]_vars

\* the batch under a fair scheduler: every API call returns (each request has
\* a timeout) and a thread, process or task that can take a step takes it
LiveListingEvents ==
    {Returns(Response(200, ListBody(GoodListing))), Returns(Response(500, NotJson))}
LiveUpdateEvents ==
    {Returns(Response(500, NotJson)),
     Returns(Response(200, ObjectBody(Entry(TRUE, DefaultTargetVS, "u1", "false"))))}
LiveItemEvents ==
    {Returns(Response(200, ObjectBody(Entry(TRUE, DefaultTargetVS, "u1", "false"))))}

NextLive ==
    \/ run_tests
    \/ \E i \in Cases : \E e1 \in {Raises} \cup BatchOpaqueEvents :
          \E e2 \in BatchOpaqueEvents : \E e3 \in BatchOpaqueEvents : Stage1(i, e1, e2, e3)
    \/ \E i \in Cases : \E e \in LiveListingEvents : Stage2(i, e)
    \/ \E i \in Cases : \E e \in LiveUpdateEvents : Stage3(i, e, remote)
    \/ \E i \in Cases : \E e \in LiveItemEvents : Stage4(i, e)
    \/ Collect
    \/ Gather

SpecLive == Init /\ [][NextLive]_vars /\ WF_vars(NextLive)

\* one orchestrator, run by run_test_case, against every response of the remote
InitWorkflow ==
    /\ phase = "running"
    /\ method = "sequential"
    /\ max_workers = 4
    /\ \E t \in {Missing, OtherVS} :
          BatchStart(<<[name |-> CaseName(1), target_virtual_service |-> t]>>)
    /\ AfterSetup

\* the position of the workflow is tested before the responses are drawn
NextWorkflow ==
    \/ /\ pc[1] = "pending"
       /\ \E e1 \in Events(OpaqueResponses) : \E e2 \in Events(ListingResponses) :
             \E e3 \in Events(OpaqueResponses) : Stage1(1, e1, e2, e3)
    \/ /\ pc[1] = "stage2"
       /\ \E e \in Events(ListingResponses) : Stage2(1, e)
    \/ \E e \in Events(ItemResponses) : Stage3(1, e, remote)
    \/ \E e \in Events(ItemResponses) : Stage4(1, e)
    \/ Collect

SpecWorkflow == InitWorkflow /\ [][NextWorkflow]_vars

\* a batch against a remote that applies every update: the listing and the
\* by-UUID GET show the state the remote is in when the request arrives
RemoteName(u) == IF u = "u1" THEN DefaultTargetVS ELSE OtherVS
RemoteEntry(r, u) == Entry(TRUE, RemoteName(u), u, r[u].enabled)
RemoteListing(r) == <<RemoteEntry(r, "u1"), RemoteEntry(r, "u2")>>
RemoteList(r) == Returns(Response(200, ListBody(RemoteListing(r))))
RemoteApply(r, id, payload) ==
    IF id \in RemoteIds THEN [r EXCEPT ![id].enabled = payload] ELSE r
RemotePut(r, id, payload) ==
    IF id \in RemoteIds
    THEN Returns(Response(200, ObjectBody(RemoteEntry(RemoteApply(r, id, payload), id))))
    ELSE Returns(Response(404, NotJson))
RemoteGet(r, id) ==
    IF id \in RemoteIds THEN Returns(Response(200, ObjectBody(RemoteEntry(r, id))))
    ELSE Returns(Response(404, NotJson))

RemoteStates ==
    [RemoteIds -> {[initially |-> b, enabled |-> b] : b \in {"true", "false"}}]
RemoteCases ==
    UNION {[1..n -> {[name |-> "tc", target_virtual_service |-> t] : t \in {Missing, OtherVS}}]
           : n \in 0..NumCases}

InitRemote ==
    /\ phase = "ready"
    /\ method \in Methods \cup {"bogus"}
    /\ max_workers \in 1..MaxWorkers
    /\ \E cases \in RemoteCases : BatchStart(cases)
    /\ api_call = NoCall
    /\ exit_code = NotExited
    /\ accessor_call = NoCall
    /\ remote \in RemoteStates
    /\ token = "tokA"
    /\ config = ConfiguredDoc
    /\ api_client = "client"
    /\ setup_ret = "True"
    /\ requests = <<>>
    /\ last_login = NoLogin
    /\ logins = 0

NextRemote ==
    \/ run_tests
    \/ \E i \in Cases : \E e1 \in BatchOpaqueEvents : \E e3 \in BatchOpaqueEvents :
          Stage1(i, e1, RemoteList(remote), e3)
    \/ \E i \in Cases : Stage2(i, RemoteList(remote))
    \/ \E i \in Cases :
          Stage3(i, RemotePut(remote, uuid[i], "false"), RemoteApply(remote, uuid[i], "false"))
    \/ \E i \in Cases : Stage4(i, RemoteGet(remote, uuid[i]))
    \/ Collect
    \/ Gather

SpecRemote == InitRemote /\ [][NextRemote]_vars

\* the framework's setup and the API client's authentication state
InitSetup ==
    /\ phase = "client"
    /\ method = "threading"
    /\ max_workers = 4
    /\ BatchStart(<<>>)
    /\ token = NoneStr
    /\ config \in [base_url : {Missing, "", "value"}, username : {Missing, "", "value"},
                   password : {Missing, "", "value"}]
    /\ api_client = "None"
    /\ setup_ret = "None"
    /\ requests = <<>>
    /\ last_login = NoLogin
    /\ logins = 0
    /\ ProcessStart

NextSetup ==
    \/ \E r \in RegisterResponses : \E l \in LoginResponses : setup(r, l)
    \/ \E l \in LoginResponses : Login(l)
    \/ AuthenticatedCall

SpecSetup == InitSetup /\ [][NextSetup]_vars

\* --------------------------------------------------------- configuration
\* a loaded document: shape "none" (an empty file: yaml.safe_load gives None)
\* or "mapping"; each key is Missing, "null" (present without a value) or
\* holds a value; timeout, method and max_workers are the keys inside api and
\* parallelism when those are mappings
Document(shape, a, t, c, tc, tv, par, m, w) ==
    [shape |-> shape, api |-> a, timeout |-> t, credentials |-> c,
     test_cases |-> tc, target_virtual_service |-> tv,
     parallelism |-> par, method |-> m, max_workers |-> w]
EmptyDocument ==
    Document("none", Missing, Missing, Missing, Missing, Missing, Missing, Missing, Missing)
Documents ==
    {EmptyDocument} \cup
    {Document("mapping", a, IF a = "map" THEN t ELSE Missing, c, tc, tv,
              par, IF par = "map" THEN m ELSE Missing, IF par = "map" THEN w ELSE Missing) :
        a \in {Missing, "null", "map"}, t \in {Missing, "10"}, c \in {Missing, "map"},
        tc \in {Missing, "list"}, tv \in {Missing, OtherVS},
        par \in {Missing, "null", "map"}, m \in {Missing, "sequential"},
        w \in {Missing, "2"}}

\* what an accessor call gives: an exception, or the value returned
AccessorRaises == [raised |-> TRUE, value |-> NoneStr]
AccessorReturns(v) == [raised |-> FALSE, value |-> v]

\* self.config.get(key, default): AttributeError when the document is None
ConfigGet(doc, key, default) ==
    IF doc.shape = "none" THEN AccessorRaises
    ELSE AccessorReturns(DictGet(doc[key], default))

\* self.config.get(outer, {}).get(key, default)
ConfigGetNested(doc, outer, key, default) ==
    IF doc.shape = "none" THEN AccessorRaises
    ELSE IF doc[outer] = "null" THEN AccessorRaises
    ELSE AccessorReturns(DictGet(doc[key], default))

Accessors == {"get_api_config", "get_credentials", "get_test_cases",
              "get_target_virtual_service", "get_timeout", "get_parallelism_method",
              "get_max_workers"}

\* the documented default of each accessor ("{}" the empty mapping, "[]" the
\* empty sequence)
DefaultOf(accessor) ==
    CASE accessor = "get_api_config" -> "{}"
      [] accessor = "get_credentials" -> "{}"
      [] accessor = "get_test_cases" -> "[]"
      [] accessor = "get_target_virtual_service" -> DefaultTargetVS
      [] accessor = "get_timeout" -> "30"
      [] accessor = "get_parallelism_method" -> "threading"
      [] accessor = "get_max_workers" -> "4"

get_api_config(doc) == ConfigGet(doc, "api", "{}")
get_credentials(doc) == ConfigGet(doc, "credentials", "{}")
get_test_cases(doc) == ConfigGet(doc, "test_cases", "[]")
get_target_virtual_service(doc) == ConfigGet(doc, "target_virtual_service", DefaultTargetVS)
get_timeout(doc) == ConfigGetNested(doc, "api", "timeout", "30")
get_parallelism_method(doc) == ConfigGetNested(doc, "parallelism", "method", "threading")
get_max_workers(doc) == ConfigGetNested(doc, "parallelism", "max_workers", "4")

Access(accessor, doc) ==
    CASE accessor = "get_api_config" -> get_api_config(doc)
      [] accessor = "get_credentials" -> get_credentials(doc)
      [] accessor = "get_test_cases" -> get_test_cases(doc)
      [] accessor = "get_target_virtual_service" -> get_target_virtual_service(doc)
      [] accessor = "get_timeout" -> get_timeout(doc)
      [] accessor = "get_parallelism_method" -> get_parallelism_method(doc)
      [] accessor = "get_max_workers" -> get_max_workers(doc)

\* the key an accessor reads is absent from the document
KeyAbsent(accessor, doc) ==
    CASE accessor = "get_api_config" -> doc.api = Missing
      [] accessor = "get_credentials" -> doc.credentials = Missing
      [] accessor = "get_test_cases" -> doc.test_cases = Missing
      [] accessor = "get_target_virtual_service" -> doc.target_virtual_service = Missing
      [] accessor = "get_timeout" -> doc.timeout = Missing
      [] accessor = "get_parallelism_method" -> doc.method = Missing
      [] accessor = "get_max_workers" -> doc.max_workers = Missing

\* a ConfigLoader holding a loaded document; one accessor is called
InitConfig ==
    /\ phase = "config"
    /\ method = "threading"
    /\ max_workers = 4
    /\ BatchStart(<<>>)
    /\ token = NoneStr
    /\ config = ConfiguredDoc
    /\ api_client = "None"
    /\ setup_ret = "None"
    /\ requests = <<>>
    /\ last_login = NoLogin
    /\ logins = 0
    /\ api_call = NoCall
    /\ exit_code = NotExited
    /\ accessor_call \in {[called |-> FALSE, document |-> doc] : doc \in Documents}
    /\ remote = EnabledRemote

CallAccessor(accessor) ==
    /\ phase = "config"
    /\ ~accessor_call.called
    /\ accessor_call' = [called |-> TRUE, document |-> accessor_call.document,
                         accessor |-> accessor,
                         outcome |-> Access(accessor, accessor_call.document)]
    /\ UNCHANGED <<batch_vars, config, api_client, setup_ret, requests, last_login,
                   logins, api_call, exit_code, remote, token>>

NextConfig == \E accessor \in Accessors : CallAccessor(accessor)

SpecConfig == InitConfig /\ [][NextConfig]_vars

\* ------------------------------------------------------------------- main
\* how main's try block ends: "completed" (it ran to its last line),
\* "setup_failed" (sys.exit(1) after setup returned False), "interrupted"
\* (KeyboardInterrupt), "error" (any other exception)
MainOutcomes == {"completed", "setup_failed", "interrupted", "error"}

\* variant: an unexpected error is only logged
main_exit_logged(how) == IF how \in {"setup_failed", "interrupted"} THEN 1 ELSE 0

\* the exit code: SystemExit(1) passes both except clauses, the two except
\* clauses call sys.exit(1), and falling off the end of main gives 0
main_exit(how) == IF how = "completed" THEN 0 ELSE 1

Exit(how) ==
    /\ phase' = how
    /\ exit_code' = main_exit(how)

\* framework = TestFramework(args.config): the configuration file is loaded
LoadConfig(file) ==
    /\ phase = "main"
    /\ IF file = "loaded" THEN phase' = "client" /\ exit_code' = exit_code
       ELSE Exit("error")
    /\ UNCHANGED <<method, max_workers, test_cases, pc, test_results, uuid, summary, calls,
                   outcome, finished, results, config, api_client, setup_ret, requests,
                   last_login, logins, api_call, accessor_call, remote, token>>

\* variant: the value setup returned is ignored
SetupReturned_ignored ==
    /\ phase = "client"
    /\ setup_ret # "None"
    /\ phase' = "ready"
    /\ exit_code' = exit_code
    /\ UNCHANGED <<method, max_workers, test_cases, pc, test_results, uuid, summary, calls,
                   outcome, finished, results, config, api_client, setup_ret, requests,
                   last_login, logins, api_call, accessor_call, remote, token>>

\* if not framework.setup(): sys.exit(1)
SetupReturned ==
    /\ phase = "client"
    /\ setup_ret # "None"
    /\ IF setup_ret = "False" THEN Exit("setup_failed")
       ELSE phase' = "ready" /\ exit_code' = exit_code
    /\ UNCHANGED <<method, max_workers, test_cases, pc, test_results, uuid, summary, calls,
                   outcome, finished, results, config, api_client, setup_ret, requests,
                   last_login, logins, api_call, accessor_call, remote, token>>

\* print_final_summary() and the last line of the try block
Completed ==
    /\ phase = "returned"
    /\ Exit("completed")
    /\ UNCHANGED <<method, max_workers, test_cases, pc, test_results, uuid, summary, calls,
                   outcome, finished, results, config, api_client, setup_ret, requests,
                   last_login, logins, api_call, accessor_call, remote, token>>

\* the user interrupts the process while the try block runs
Interrupted ==
    /\ phase \in {"main", "client", "ready", "running", "returned"}
    /\ Exit("interrupted")
    /\ UNCHANGED <<method, max_workers, test_cases, pc, test_results, uuid, summary, calls,
                   outcome, finished, results, config, api_client, setup_ret, requests,
                   last_login, logins, api_call, accessor_call, remote, token>>

\* an exception leaves run_tests or print_final_summary (a test case that is
\* not a mapping, a pool that cannot be created, a result that cannot be sent)
UnhandledError ==
    /\ phase \in {"ready", "running", "returned"}
    /\ Exit("error")
    /\ UNCHANGED <<method, max_workers, test_cases, pc, test_results, uuid, summary, calls,
                   outcome, finished, results, config, api_client, setup_ret, requests,
                   last_login, logins, api_call, accessor_call, remote, token>>

InitMain ==
    /\ phase = "main"
    /\ method \in {"sequential", "threading", "bogus"}
    /\ max_workers = 1
    /\ \E n \in 0..MaxMainCases : BatchStart(BatchCases(n))
    /\ token = NoneStr
    /\ config \in {ConfiguredDoc, [ConfiguredDoc EXCEPT !.password = Missing]}
    /\ api_client = "None"
    /\ setup_ret = "None"
    /\ requests = <<>>
    /\ last_login = NoLogin
    /\ logins = 0
    /\ ProcessStart

NextMain ==
    \/ \E file \in {"missing", "malformed", "loaded"} : LoadConfig(file)
    \/ \E r \in RegisterResponses : \E l \in LoginResponses : setup(r, l)
    \/ SetupReturned
    \/ run_tests
    \/ \E i \in Cases : \E e1 \in {Raises} \cup BatchOpaqueEvents :
          \E e2 \in BatchOpaqueEvents : \E e3 \in BatchOpaqueEvents : Stage1(i, e1, e2, e3)
    \/ \E i \in Cases : \E e \in LiveListingEvents : Stage2(i, e)
    \/ \E i \in Cases : \E e \in LiveUpdateEvents : Stage3(i, e, remote)
    \/ \E i \in Cases : \E e \in LiveItemEvents : Stage4(i, e)
    \/ Collect
    \/ Completed
    \/ Interrupted
    \/ UnhandledError

SpecMain == InitMain /\ [][NextMain]_vars

\* one method of the API client, called once, against every response
InitClient ==
    /\ phase = "client"
    /\ method = "threading"
    /\ max_workers = 4
    /\ BatchStart(<<>>)
    /\ token \in {NoneStr, "tokA"}
    /\ config = ConfiguredDoc
    /\ api_client = "client"
    /\ setup_ret = "None"
    /\ requests = <<>>
    /\ last_login = NoLogin
    /\ logins = 0
    /\ ProcessStart

\* the call is observed: method, argument, response, and the value returned
\* (ok for register and login, ret for the others)
Observe(op, arg, resp, ok, ret) ==
    /\ phase = "client"
    /\ api_client = "client"
    /\ api_call = NoCall
    /\ api_call' = [called |-> TRUE, op |-> op, arg |-> arg, resp |-> resp,
                    ok |-> ok, ret |-> ret]
    /\ UNCHANGED <<batch_vars, config, api_client, setup_ret, requests, last_login,
                   logins, exit_code, accessor_call, remote>>

CallRegister(resp) ==
    Observe("register", NoneStr, resp, register(resp), PyNone) /\ token' = token
CallLogin(resp) ==
    Observe("login", NoneStr, resp, login(token, resp).ret, PyNone)
        /\ token' = login(token, resp).token
CallGetTenants(resp) ==
    Observe("get_tenants", NoneStr, resp, FALSE, get_tenants(resp)) /\ token' = token
CallGetVirtualServices(resp) ==
    Observe("get_virtual_services", NoneStr, resp, FALSE, get_virtual_services(resp))
        /\ token' = token
CallGetServiceEngines(resp) ==
    Observe("get_service_engines", NoneStr, resp, FALSE, get_service_engines(resp))
        /\ token' = token
CallGetVirtualServiceByUuid(id, resp) ==
    Observe("get_virtual_service_by_uuid", id, resp, FALSE,
            get_virtual_service_by_uuid(id, resp)) /\ token' = token
CallGetVirtualServiceByName(name, resp) ==
    Observe("get_virtual_service_by_name", name, resp, FALSE,
            get_virtual_service_by_name(name, resp)) /\ token' = token
CallUpdateVirtualService(id, resp) ==
    Observe("update_virtual_service", id, resp, FALSE,
            update_virtual_service(id, "false", resp)) /\ token' = token

\* one call per client: nothing follows the call that is observed
NextClient ==
    /\ api_call = NoCall
    /\ \/ \E r \in RegisterResponses : CallRegister(r)
       \/ \E r \in LoginResponses : CallLogin(r)
       \/ \E r \in ListingResponses : CallGetTenants(r)
       \/ \E r \in ListingResponses : CallGetVirtualServices(r)
       \/ \E r \in ListingResponses : CallGetServiceEngines(r)
       \/ \E r \in ItemResponses : CallGetVirtualServiceByUuid("u1", r)
       \/ \E n \in {DefaultTargetVS, OtherVS} : \E r \in ListingResponses :
                 CallGetVirtualServiceByName(n, r)
       \/ \E r \in ItemResponses : CallUpdateVirtualService("u1", r)

SpecClient == InitClient /\ [][NextClient]_vars

\* _print_summary applied to every test_results an orchestrator can hold and
\* to those with stages left absent
StageResults ==
    {NotExecuted, [status |-> "success"], [status |-> "failed", error |-> "exception"],
     [status |-> "failed", error |-> "not found"]}

InitSummary ==
    /\ phase = "summary"
    /\ method = "sequential"
    /\ max_workers = 4
    /\ test_cases = <<[name |-> CaseName(1), target_virtual_service |-> Missing]>>
    /\ pc = <<"stage4">>
    /\ test_results \in {<<tr>> : tr \in [StageNames -> StageResults]}
    /\ uuid = <<NoneStr>>
    /\ summary = <<"none">>
    /\ calls = <<<<>>>>
    /\ outcome = <<NoOutcome>>
    /\ finished = <<>>
    /\ results = <<>>
    /\ AfterSetup

PrintSummary ==
    /\ phase = "summary"
    /\ summary[1] = "none"
    /\ summary' = [summary EXCEPT ![1] = _print_summary(test_results[1])]
    /\ UNCHANGED <<phase, method, max_workers, test_cases, pc, test_results, uuid, calls,
                   outcome, finished, results, client_vars, token>>

SpecSummary == InitSummary /\ [][PrintSummary]_vars

\* ------------------------------------------------------------------ claims
Recorded(i, s) == test_results[i][s] # NotExecuted
StatusOf(i, s) == IF Recorded(i, s) THEN test_results[i][s].status ELSE "not-executed"
OpsOf(i) == {calls[i][k].op : k \in 1..Len(calls[i])}

\* C1: when stage 2 records a status other than success the workflow stops:
\* the test case is done, task_trigger and post_validation are absent in the
\* result that is returned, and neither the update nor the by-UUID GET was
\* invoked for that test case.
C1_StopsAfterFailedPreValidation ==
    \A i \in Cases :
        (Recorded(i, "pre_validation") /\ StatusOf(i, "pre_validation") # "success") =>
            /\ pc[i] = "done"
            /\ ~Recorded(i, "task_trigger")
            /\ ~Recorded(i, "post_validation")
            /\ outcome[i] # NoOutcome
            /\ outcome[i].results = test_results[i]
            /\ OpsOf(i) \cap {"update_virtual_service", "get_virtual_service_by_uuid"} = {}

C1_Witness ==
    \E i \in Cases :
        /\ Recorded(i, "pre_validation")
        /\ test_results[i]["pre_validation"].status = "failed"
        /\ test_results[i]["pre_validation"].error = "Virtual service is not enabled"
        /\ results # <<>>

\* C2: when stage 2 succeeded, stage 3 is followed by stage 4 whatever stage 3
\* recorded, and the update and the by-UUID GET both address the identifier
\* that stage 2 recorded.
C2_Stage4AlwaysFollowsStage3 ==
    \A i \in Cases :
        (Recorded(i, "pre_validation") /\ StatusOf(i, "pre_validation") = "success") =>
            /\ pc[i] \in {"stage3", "stage4", "done"}
            /\ Recorded(i, "task_trigger") <=> pc[i] \in {"stage4", "done"}
            /\ Recorded(i, "post_validation") <=> pc[i] = "done"
            /\ pc[i] \in {"stage4", "done"} =>
                  /\ calls[i][Len(calls[i]) - (IF pc[i] = "done" THEN 1 ELSE 0)].op
                        = "update_virtual_service"
                  /\ calls[i][Len(calls[i]) - (IF pc[i] = "done" THEN 1 ELSE 0)].uuid
                        = ResultGet(test_results[i]["pre_validation"], "uuid")
            /\ pc[i] = "done" =>
                  /\ calls[i][Len(calls[i])].op = "get_virtual_service_by_uuid"
                  /\ calls[i][Len(calls[i])].uuid
                        = ResultGet(test_results[i]["pre_validation"], "uuid")

C2_Witness ==
    \E i \in Cases :
        /\ pc[i] = "done"
        /\ StatusOf(i, "pre_validation") = "success"
        /\ test_results[i]["pre_validation"].uuid = "u1"
        /\ StatusOf(i, "task_trigger") = "failed"
        /\ test_results[i]["task_trigger"].error = "exception"
        /\ Recorded(i, "post_validation")

\* C3: when pre-validation reports failure, stages 3 and 4 stay not-executed
\* and the summary is still produced, with the overall verdict FAILED.
C3_SummaryAfterEarlyStop ==
    \A i \in Cases :
        (pc[i] = "done" /\ StatusOf(i, "pre_validation") = "failed") =>
            /\ ~Recorded(i, "task_trigger")
            /\ ~Recorded(i, "post_validation")
            /\ summary[i] = "FAILED"

\* C4: under each strategy the returned list has one outcome per test case,
\* in the order of the input list: the k-th result carries the name of the
\* k-th test case, whatever the order in which the test cases completed.
C4_ResultsInInputOrder ==
    /\ Len(results) <= Len(test_cases)
    /\ \A k \in 1..Len(results) :
          /\ results[k] # NoOutcome
          /\ results[k].test_name = test_cases[k].name
    /\ (phase = "returned" /\ test_cases # <<>> /\ method \in Methods) =>
          Len(results) = Len(test_cases)

C4_Witness ==
    /\ phase = "returned"
    /\ method = "threading"
    /\ Len(results) >= 2
    /\ finished[1] # 1

RaisedIn(i) == {k \in 1..Len(calls[i]) : calls[i][k].raised}

\* C5 as stated: an exception raised by an API client call inside a test
\* case's workflow gives that test case a TestCaseOutcome with status failed
\* that carries the error message.
C5_RaiseYieldsFailedOutcome ==
    \A i \in Cases :
        (pc[i] = "done" /\ RaisedIn(i) # {}) =>
            /\ outcome[i].status = "failed"
            /\ "error" \in DOMAIN outcome[i]

\* C5 amended: an exception raised by an API client call is caught at the
\* boundary of the stage that made the call, which records failed with the
\* error message; the test case's outcome has status completed and carries its
\* own workflow result, and every test case of the batch gets its own outcome.
C5_RaiseIsolatedAtStage ==
    /\ \A i \in Cases :
         /\ \A k \in RaisedIn(i) : test_results[i][calls[i][k].stage] = ExceptionResult
         /\ pc[i] = "done" =>
               /\ outcome[i].test_name = test_cases[i].name
               /\ outcome[i].status = "completed"
               /\ outcome[i].results = test_results[i]
    /\ (phase = "returned" /\ test_cases # <<>> /\ method \in Methods) =>
          \A j \in Cases : results[j] = outcome[j]

C5_Witness ==
    /\ phase = "returned"
    /\ Len(results) >= 2
    /\ RaisedIn(1) # {}
    /\ results[1].results["pre_fetcher"] = ExceptionResult
    /\ RaisedIn(2) = {}
    /\ \A s \in StageNames : results[2].results[s].status = "success"

\* C8: while a batch is dispatched the API client's token is never written:
\* no step of any test case, under any strategy, changes it before the batch
\* has returned.
C8_TokenUnchangedDuringBatch ==
    [][(phase \in {"ready", "running"}) => (token' = token)]_vars

C8_Witness ==
    /\ phase = "returned"
    /\ method = "threading"
    /\ Len(results) >= 2
    /\ \A i \in Cases : /\ Len(calls[i]) = 6
                        /\ \A k \in 1..6 : calls[i][k].authorization = Bearer(token)

LoginsBefore(k) == Cardinality({m \in 1..(k - 1) : requests[m].op = "login"})
FirstLogin == CHOOSE m \in 1..Len(requests) : requests[m].op = "login" /\ LoginsBefore(m) = 0

\* C6: whenever login returns failure the client's token is what it was
\* before the call, and after a failed first login the authenticated calls
\* carry no Authorization header.
C6_FailedLoginKeepsToken ==
    /\ (last_login.called /\ ~last_login.ret) => token = last_login.before
    /\ \A k \in 1..Len(requests) :
          (requests[k].op = "get" /\ LoginsBefore(k) = 1 /\ ~requests[FirstLogin].ret) =>
              requests[k].authorization = NoAuthorization

\* C7: on every HTTP 200 login response whose body is a JSON object, login
\* returns success and stores the body's token field, and every later
\* authenticated call sends Authorization: Bearer <that token>.
C7_Login200StoresToken ==
    (last_login.called /\ last_login.resp.status = 200
        /\ last_login.resp.body.shape = "object") =>
        /\ last_login.ret
        /\ token = DictGet(last_login.resp.body.tokfield, NoneStr)
        /\ \A k \in 1..Len(requests) :
              (requests[k].op = "get" /\ LoginsBefore(k) = logins) =>
                  requests[k].authorization = Bearer(token)

AllPresent ==
    ~Falsy(config.base_url) /\ ~Falsy(config.username) /\ ~Falsy(config.password)

\* C9: setup fails at once, with no client and no request, when the base URL,
\* the username or the password is missing; otherwise it registers, then logs
\* in whatever registration returned, and returns what login returned.
C9_SetupResult ==
    setup_ret # "None" =>
        /\ ~AllPresent => (setup_ret = "False" /\ api_client = "None" /\ requests = <<>>)
        /\ AllPresent =>
              /\ api_client = "client"
              /\ Len(requests) >= 2
              /\ requests[1].op = "register"
              /\ requests[2].op = "login"
              /\ setup_ret = BoolStr(requests[2].ret)

C9_Witness ==
    /\ setup_ret = "True"
    /\ ~requests[1].ret
    /\ requests[2].ret

ShowsDisabled(e) ==
    /\ ~e.raises
    /\ e.resp.status = 200
    /\ e.resp.body.shape = "object"
    /\ e.resp.body.obj.enabled = "false"

FoundEnabled(i) ==
    /\ Recorded(i, "pre_validation")
    /\ "virtual_service" \in DOMAIN test_results[i]["pre_validation"]
    /\ test_results[i]["pre_validation"].virtual_service.enabled = "true"

AnsweredDisabled(i, op) ==
    \E k \in 1..Len(calls[i]) : calls[i][k].op = op /\ ShowsDisabled(calls[i][k].event)

AllStagesPass(i) ==
    /\ \A s \in StageNames : StatusOf(i, s) = "success"
    /\ summary[i] = "PASSED"

\* C10 as stated: a target found by name with enabled=true, an update whose
\* response shows enabled=false and a re-fetch that shows enabled=false give
\* success for all four stages and the verdict PASSED (no client call raises).
C10_HappyPathPasses ==
    \A i \in Cases :
        (/\ pc[i] = "done"
         /\ RaisedIn(i) = {}
         /\ FoundEnabled(i)
         /\ AnsweredDisabled(i, "update_virtual_service")
         /\ AnsweredDisabled(i, "get_virtual_service_by_uuid")) => AllStagesPass(i)

\* C10 amended: the same, given that stage 1 recorded success (none of its
\* fetches raised and every entry of the listing it fetched is an object).
C10_HappyPathPassesAfterPreFetch ==
    \A i \in Cases :
        (/\ pc[i] = "done"
         /\ StatusOf(i, "pre_fetcher") = "success"
         /\ FoundEnabled(i)
         /\ AnsweredDisabled(i, "update_virtual_service")
         /\ AnsweredDisabled(i, "get_virtual_service_by_uuid")) => AllStagesPass(i)

C10_Witness ==
    \E i \in Cases :
        /\ pc[i] = "done"
        /\ StatusOf(i, "pre_fetcher") = "success"
        /\ FoundEnabled(i)
        /\ AnsweredDisabled(i, "update_virtual_service")
        /\ AnsweredDisabled(i, "get_virtual_service_by_uuid")
        /\ AllStagesPass(i)

\* the event of the update call of test case i
UpdateEvent(i) ==
    calls[i][CHOOSE k \in 1..Len(calls[i]) : calls[i][k].op = "update_virtual_service"].event

\* the update returns the parsed body (an object): HTTP 200 with an object
ReturnsObject(e) == ~e.raises /\ e.resp.status = 200 /\ e.resp.body.shape = "object"

\* C11: stage 3 records failed whenever the update call returns absent, and
\* whenever the returned object shows enabled=true or has no enabled field;
\* it records success only when the returned object shows enabled=false.
C11_Stage3SuccessOnlyWhenDisabled ==
    \A i \in Cases :
        Recorded(i, "task_trigger") =>
            /\ (~UpdateEvent(i).raises
                  /\ update_virtual_service(uuid[i], "false", UpdateEvent(i).resp).isNone)
                  => StatusOf(i, "task_trigger") = "failed"
            /\ (ReturnsObject(UpdateEvent(i))
                  /\ UpdateEvent(i).resp.body.obj.enabled \in {"true", Missing})
                  => StatusOf(i, "task_trigger") = "failed"
            /\ StatusOf(i, "task_trigger") = "success" => ShowsDisabled(UpdateEvent(i))

IssuedBy(i, stage, op) ==
    Cardinality({k \in 1..Len(calls[i]) : calls[i][k].stage = stage /\ calls[i][k].op = op})
Issued(i, op) == Cardinality({k \in 1..Len(calls[i]) : calls[i][k].op = op})

\* C16: there are no retries: within one workflow the tenant listing and the
\* service-engine listing are issued at most once, the virtual-service listing
\* at most once by stage 1 and once by stage 2, the update at most once and
\* the by-UUID GET at most once, whatever the calls returned.
C16_NoRetries ==
    \A i \in Cases :
        /\ Issued(i, "get_tenants") <= 1
        /\ Issued(i, "get_service_engines") <= 1
        /\ IssuedBy(i, "pre_fetcher", "get_virtual_services") <= 1
        /\ IssuedBy(i, "pre_validation", "get_virtual_services") <= 1
        /\ Issued(i, "get_virtual_services") <= 2
        /\ Issued(i, "update_virtual_service") <= 1
        /\ Issued(i, "get_virtual_service_by_uuid") <= 1
        /\ Len(calls[i]) <= 6

C16_Witness ==
    \E i \in Cases :
        /\ pc[i] = "done"
        /\ Len(calls[i]) = 6
        /\ ~UpdateEvent(i).raises
        /\ UpdateEvent(i).resp.status = 500
        /\ StatusOf(i, "task_trigger") = "failed"
        /\ Issued(i, "update_virtual_service") = 1

RecordedStages(i) == {s \in StageNames : Recorded(i, s)}

\* C12: the overall verdict is PASSED exactly when every stage that has a
\* recorded result has status success: a recorded result of any stage, stage 1
\* included, whose status is not success makes the verdict FAILED, and an
\* absent stage never blocks PASSED.
C12_VerdictOverRecordedStages ==
    \A i \in Cases :
        summary[i] # "none" =>
            /\ summary[i] = "PASSED" <=>
                  \A s \in RecordedStages(i) : test_results[i][s].status = "success"
            /\ (\E s \in RecordedStages(i) : test_results[i][s].status = "failed")
                  => summary[i] = "FAILED"
            /\ (StatusOf(i, "pre_fetcher") = "failed") => summary[i] = "FAILED"

C12_Witness ==
    \E i \in Cases :
        /\ summary[i] = "PASSED"
        /\ RecordedStages(i) = {"pre_fetcher", "pre_validation"}

ReturnsValue == {"get_tenants", "get_virtual_services", "get_service_engines",
                 "get_virtual_service_by_uuid", "get_virtual_service_by_name",
                 "update_virtual_service"}
ListingOps == {"get_tenants", "get_virtual_services", "get_service_engines"}

\* the response makes the method's try block fail: the request itself fails,
\* the status is not one the method accepts, or the body cannot be parsed
\* or has a shape the method cannot handle
FailsInside(op, resp) ==
    \/ resp.status = TransportFailure
    \/ resp.status \notin (IF op = "register" THEN {200, 409} ELSE {200})
    \/ op # "register" /\ resp.body.shape = "notjson"
    \/ op = "login" /\ resp.body.shape # "object"
    \/ op \in {"get_virtual_services", "get_virtual_service_by_name"}
          /\ resp.body.shape = "badenvelope"

\* C13: no API client operation propagates an exception to its caller: every
\* call returns a value, and for every failing status, every body that is
\* malformed or has an unexpected shape and every transport failure the
\* value is false (register, login) or absent (the other operations).
C13_ClientNeverRaises ==
    api_call.called =>
        /\ api_call.ok \in BOOLEAN
        /\ api_call.ret # Propagated
        /\ api_call.ret.isNone \in BOOLEAN
        /\ FailsInside(api_call.op, api_call.resp) =>
              IF api_call.op \in ReturnsValue THEN api_call.ret = PyNone
              ELSE api_call.ok = FALSE

C13_Witness ==
    /\ api_call.called
    /\ api_call.op = "update_virtual_service"
    /\ api_call.resp.status = 200
    /\ api_call.resp.body.shape = "notjson"
    /\ api_call.ret = PyNone

\* the listing get_virtual_service_by_name scans, and where the query occurs
Scanned == get_virtual_services(api_call.resp)
MatchesOf(services, name) ==
    {k \in 1..Len(services) : services[k].dict /\ services[k].name = name}
FirstOf(S) == CHOOSE k \in S : \A m \in S : k <= m
ByNameCalled == api_call.called /\ api_call.op = "get_virtual_service_by_name"

\* C19 as stated: get_virtual_service_by_name returns the first entry of the
\* listing whose name equals the query, and absent when the listing is
\* absent, is empty or holds no entry with that name.
C19_ByNameFirstMatch ==
    ByNameCalled =>
        IF Scanned.isNone \/ MatchesOf(Scanned.v, api_call.arg) = {}
        THEN api_call.ret = PyNone
        ELSE api_call.ret = Some(Scanned.v[FirstOf(MatchesOf(Scanned.v, api_call.arg))])

\* an entry that is not an object stands before position k
JunkBefore(services, k) == \E m \in 1..(k - 1) : ~services[m].dict

\* C19 amended: the first entry whose name equals the query is returned when
\* every entry before it is an object; the result is absent when the listing
\* is absent, is empty, holds no entry with that name, or holds an entry that
\* is not an object before the first match.
C19_ByNameFirstMatchAmongObjects ==
    ByNameCalled =>
        IF Scanned.isNone \/ MatchesOf(Scanned.v, api_call.arg) = {}
        THEN api_call.ret = PyNone
        ELSE LET k == FirstOf(MatchesOf(Scanned.v, api_call.arg))
             IN IF JunkBefore(Scanned.v, k) THEN api_call.ret = PyNone
                ELSE api_call.ret = Some(Scanned.v[k])

C19_Witness ==
    /\ ByNameCalled
    /\ ~Scanned.isNone
    /\ Cardinality(MatchesOf(Scanned.v, api_call.arg)) = 2
    /\ Scanned.v[1].uuid # Scanned.v[2].uuid
    /\ api_call.ret = Some(Scanned.v[1])

\* C20: on HTTP 200 the virtual-service listing returns the inner list of a
\* body that is an object with a results key, a list body itself, and a
\* one-element list holding a body that is a bare object; the tenant and
\* service-engine listings return a list body as is and wrap a bare object.
C20_ListingNormalised ==
    (api_call.called /\ api_call.op \in ListingOps /\ api_call.resp.status = 200) =>
        /\ (api_call.op = "get_virtual_services" /\ api_call.resp.body.shape = "envelope")
              => api_call.ret = Some(api_call.resp.body.items)
        /\ api_call.resp.body.shape = "list" => api_call.ret = Some(api_call.resp.body.items)
        /\ api_call.resp.body.shape = "object" => api_call.ret = Some(<<api_call.resp.body.obj>>)

C20_Witness ==
    /\ api_call.called
    /\ api_call.op = "get_virtual_services"
    /\ api_call.resp.status = 200
    /\ api_call.resp.body.shape = "envelope"
    /\ Len(api_call.resp.body.items) = 2
    /\ api_call.ret = Some(api_call.resp.body.items)

\* C14: once a batch is dispatched, under every strategy, every test case
\* eventually has its outcome and the batch returns with one outcome per test
\* case, also when a stage or a whole workflow of another test case failed and
\* when there are more test cases than workers.
C14_BatchReturns ==
    (phase = "running") ~>
        (/\ phase = "returned"
         /\ Len(results) = Len(test_cases)
         /\ \A i \in Cases : outcome[i] # NoOutcome /\ results[i] = outcome[i])

C14_Witness ==
    /\ phase = "returned"
    /\ method = "threading"
    /\ Len(test_cases) > max_workers
    /\ StatusOf(1, "pre_validation") = "failed"
    /\ ~Recorded(1, "task_trigger")
    /\ \A i \in Cases : results[i] = outcome[i]
    /\ \A s \in StageNames : StatusOf(Len(test_cases), s) = "success"

\* C15: under the threading strategy never more than max_workers workflows
\* are in progress at once, and every call they make goes through the one API
\* client that setup created, with its one token.
C15_ThreadingBounded ==
    method = "threading" =>
        /\ InProgress <= max_workers
        /\ api_client = "client"
        /\ \A i \in Cases : \A k \in 1..Len(calls[i]) :
              calls[i][k].authorization = _get_headers(token).authorization

C15_Witness ==
    /\ method = "threading"
    /\ phase = "running"
    /\ InProgress = max_workers
    /\ \E j \in Cases : pc[j] = "pending"
    /\ \E j \in Cases : Len(calls[j]) >= 4

\* C17: run_tests returns an empty result set without starting any strategy
\* when there are no test cases, and returns an empty result set, with no test
\* case run, when the method is none of the four.
C17_EmptyWithoutDispatch ==
    (phase # "ready" /\ (test_cases = <<>> \/ method \notin Methods)) =>
        /\ phase = "returned"
        /\ results = <<>>
        /\ finished = <<>>
        /\ \A i \in Cases : pc[i] = "pending" /\ calls[i] = <<>> /\ outcome[i] = NoOutcome

C17_Witness ==
    /\ phase = "returned"
    /\ method \notin Methods
    /\ test_cases # <<>>
    /\ results = <<>>

\* C18: the exit code is 1 when setup fails, when the user interrupts the run
\* and on any unhandled error (a missing or malformed configuration file
\* included), and 0 in every other case, including a batch that returned an
\* empty result set or whose test cases all failed.
C18_ExitCode ==
    /\ exit_code \in {NotExited, 0, 1}
    /\ exit_code # NotExited <=> phase \in MainOutcomes
    /\ phase \in {"setup_failed", "interrupted", "error"} => exit_code = 1
    /\ (setup_ret = "False" /\ exit_code # NotExited) => exit_code = 1
    /\ phase = "completed" => exit_code = 0
    /\ exit_code = 0 =>
          /\ setup_ret = "True"
          /\ (test_cases # <<>> /\ method \in Methods) => Len(results) = Len(test_cases)

C18_Witness ==
    /\ phase = "completed"
    /\ exit_code = 0
    /\ results # <<>>
    /\ \A k \in 1..Len(results) : results[k].results["pre_validation"].status = "failed"

\* C21: every configuration accessor returns its documented default when its
\* key is absent from the loaded document, for every loaded document, an
\* empty one included, and never raises.
C21_AccessorDefaults ==
    accessor_call.called =>
        /\ ~accessor_call.outcome.raised
        /\ KeyAbsent(accessor_call.accessor, accessor_call.document) =>
              accessor_call.outcome.value = DefaultOf(accessor_call.accessor)

FetchesOf(i) == {k \in 1..Len(calls[i]) : calls[i][k].stage = "pre_fetcher"}
FetchOf(i, op) == calls[i][CHOOSE k \in FetchesOf(i) : calls[i][k].op = op]
AbsentCountedZero(i) ==
    /\ FetchOf(i, "get_tenants").absent => test_results[i]["pre_fetcher"].tenants_count = 0
    /\ FetchOf(i, "get_virtual_services").absent =>
          test_results[i]["pre_fetcher"].virtual_services_count = 0
    /\ FetchOf(i, "get_service_engines").absent =>
          test_results[i]["pre_fetcher"].service_engines_count = 0
Stage2Follows(i) == pc[i] = "stage2" \/ Recorded(i, "pre_validation")

\* C22 as stated: stage 1 records success whenever none of the three fetches
\* raises, counting every absent listing as zero, and records failed only
\* when a fetch raises; in both cases stage 2 is still executed.
C22_Stage1FailsOnlyOnRaise ==
    \A i \in Cases :
        Recorded(i, "pre_fetcher") =>
            /\ (\A k \in FetchesOf(i) : ~calls[i][k].raised) =>
                  (StatusOf(i, "pre_fetcher") = "success" /\ AbsentCountedZero(i))
            /\ StatusOf(i, "pre_fetcher") = "failed" =>
                  \E k \in FetchesOf(i) : calls[i][k].raised
            /\ Stage2Follows(i)

\* C22 amended: stage 1 records success exactly when none of the three
\* fetches raises and every entry of the virtual-service listing is an
\* object, counting every absent listing as zero; it records failed when a
\* fetch raises or when the listing holds an entry that is not an object; in
\* both cases stage 2 is still executed.
C22_Stage1FailsOnRaiseOrJunk ==
    \A i \in Cases :
        Recorded(i, "pre_fetcher") =>
            /\ StatusOf(i, "pre_fetcher") \in {"success", "failed"}
            /\ StatusOf(i, "pre_fetcher") = "success" <=>
                  \A k \in FetchesOf(i) :
                      /\ ~calls[i][k].raised
                      /\ calls[i][k].op = "get_virtual_services" => ~calls[i][k].junk
            /\ StatusOf(i, "pre_fetcher") = "success" => AbsentCountedZero(i)
            /\ Stage2Follows(i)

C22_Witness ==
    \E i \in Cases :
        /\ StatusOf(i, "pre_fetcher") = "success"
        /\ FetchOf(i, "get_tenants").absent
        /\ FetchOf(i, "get_virtual_services").absent
        /\ test_results[i]["pre_fetcher"].service_engines_count = 1
        /\ Recorded(i, "pre_validation")

FoundBy(i) == test_results[i]["pre_validation"].virtual_service
LookupCall(i) ==
    calls[i][CHOOSE k \in 1..Len(calls[i]) : calls[i][k].stage = "pre_validation"]

\* C23: stage 2 records success only when the target is found by name and
\* its enabled flag is true; it records failed with a not-found error when
\* the lookup returns absent, and failed with a not-enabled error when the
\* flag is false or missing; on success it records the found object's
\* identifier, its enabled flag and the full object.
C23_Stage2SuccessOnlyWhenEnabled ==
    \A i \in Cases :
        Recorded(i, "pre_validation") =>
            /\ StatusOf(i, "pre_validation") = "success" =>
                  /\ FoundBy(i).name = TargetOf(test_cases[i])
                  /\ FoundBy(i).enabled = "true"
                  /\ test_results[i]["pre_validation"].uuid = DictGet(FoundBy(i).uuid, NoneStr)
                  /\ test_results[i]["pre_validation"].enabled = FoundBy(i).enabled
            /\ LookupCall(i).absent =>
                  test_results[i]["pre_validation"] = [status |-> "failed", error |-> "not found"]
            /\ ("virtual_service" \in DOMAIN test_results[i]["pre_validation"]
                  /\ FoundBy(i).enabled \in {"false", Missing}) =>
                  /\ StatusOf(i, "pre_validation") = "failed"
                  /\ test_results[i]["pre_validation"].error = "Virtual service is not enabled"

BatchTouched ==
    \/ phase \in {"ready", "running", "returned", "completed"}
    \/ results # <<>>
    \/ \E i \in Cases : pc[i] # "pending" \/ calls[i] # <<>> \/ summary[i] # "none"

\* C24: in the entry point no test case is dispatched and no workflow API
\* request is made unless setup returned success, which requires a successful
\* login; when setup fails the process exits without running the batch and
\* without the final summary.
C24_NoBatchWithoutSetup ==
    /\ BatchTouched => (setup_ret = "True" /\ last_login.called /\ last_login.ret)
    /\ (setup_ret = "False" /\ exit_code # NotExited) =>
          (phase \in {"setup_failed", "interrupted"} /\ ~BatchTouched)

C24_Witness ==
    /\ phase = "setup_failed"
    /\ api_client = "client"
    /\ last_login.called
    /\ ~last_login.ret
    /\ test_cases # <<>>
    /\ ~BatchTouched

\* C25: each orchestrator writes only its own WorkflowResult: a step that
\* changes the result of test case i is a step of test case i, it changes one
\* stage entry and no entry of any other test case, and the result returned
\* for test case i is the one its own stages produced.
C25_OwnResultOnly ==
    /\ [](\A i \in Cases : outcome[i] # NoOutcome => outcome[i].results = test_results[i])
    /\ [][\A i \in Cases :
             (test_results'[i] # test_results[i]) =>
                 /\ pc'[i] # pc[i]
                 /\ Cardinality({s \in StageNames :
                                    test_results'[i][s] # test_results[i][s]}) = 1
                 /\ \A j \in Cases \ {i} :
                       test_results'[j] = test_results[j] /\ pc'[j] = pc[j]]_vars

C25_Witness ==
    /\ phase = "returned"
    /\ method \in {"threading", "asyncio"}
    /\ Len(finished) = 2
    /\ finished[1] = 2
    /\ StatusOf(1, "pre_fetcher") = "failed"
    /\ StatusOf(2, "pre_fetcher") = "success"
    /\ results[1].results = test_results[1]
    /\ results[2].results = test_results[2]

\* C26: every recorded StageResult has status success or failed, every failed
\* one carries an error message, and an exception raised inside a stage is
\* turned into a failed result of that stage and never leaves
\* run_full_workflow: the workflow goes on and returns its result.
C26_StageResultsWellFormed ==
    \A i \in Cases :
        /\ \A s \in RecordedStages(i) :
              /\ test_results[i][s].status \in {"success", "failed"}
              /\ test_results[i][s].status = "failed" =>
                    ("error" \in DOMAIN test_results[i][s] /\ test_results[i][s].error # "")
        /\ \A k \in 1..Len(calls[i]) :
              (calls[i][k].raised \/ (calls[i][k].stage = "pre_fetcher" /\ calls[i][k].junk)) =>
                  /\ test_results[i][calls[i][k].stage] = ExceptionResult
                  /\ calls[i][k].stage \in {"pre_fetcher", "task_trigger"} =>
                        (pc[i] \in {"stage2", "stage4"} \/ Len(calls[i]) > k)
        /\ pc[i] = "done" =>
              (outcome[i].status = "completed" /\ outcome[i].results = test_results[i])

C26_Witness ==
    \E i \in Cases :
        /\ pc[i] = "done"
        /\ \A k \in FetchesOf(i) : ~calls[i][k].raised
        /\ test_results[i]["pre_fetcher"] = ExceptionResult
        /\ Issued(i, "update_virtual_service") = 1
        /\ UpdateEvent(i).raises
        /\ test_results[i]["task_trigger"] = ExceptionResult
        /\ Recorded(i, "post_validation")
        /\ outcome[i].status = "completed"

\* the stages in the order run_full_workflow executes them
StageOrder == <<"pre_fetcher", "pre_validation", "task_trigger", "post_validation">>
StagePrefixes == {{StageOrder[k] : k \in 1..n} : n \in 0..Len(StageOrder)}

\* C27: the stages recorded in a WorkflowResult always form a prefix of
\* pre_fetcher, pre_validation, task_trigger, post_validation; task_trigger is
\* recorded only when pre_validation recorded success; and a recorded
\* StageResult is never overwritten or removed afterwards.
C27_RecordedStagesFormPrefix ==
    /\ [](\A i \in Cases :
            /\ RecordedStages(i) \in StagePrefixes
            /\ Recorded(i, "task_trigger") => StatusOf(i, "pre_validation") = "success")
    /\ [][\A i \in Cases : \A s \in StageNames :
             Recorded(i, s) => test_results'[i][s] = test_results[i][s]]_vars

C27_Witness ==
    \E i \in Cases :
        /\ pc[i] = "done"
        /\ RecordedStages(i) = StageNames
        /\ StatusOf(i, "pre_fetcher") = "failed"
        /\ StatusOf(i, "pre_validation") = "success"
        /\ StatusOf(i, "task_trigger") = "failed"

\* the update calls a test case has sent so far
UpdatesOf(i) == {k \in 1..Len(calls[i]) : calls[i][k].op = "update_virtual_service"}

\* C29: whenever stage 3 sends an update, the identifier it sends is a present
\* uuid of the virtual service stage 2 found; a found virtual service that has
\* no uuid never leads to an update call.
C29_UpdateAddressesFoundUuid ==
    \A i \in Cases : \A k \in UpdatesOf(i) :
        /\ StatusOf(i, "pre_validation") = "success"
        /\ FoundBy(i).uuid # Missing
        /\ calls[i][k].uuid = FoundBy(i).uuid

\* the uuid of the remote virtual service a test case targets
TargetId(tc) == IF TargetOf(tc) = DefaultTargetVS THEN "u1" ELSE "u2"
StatusesOf(i) == [s \in StageNames |-> StatusOf(i, s)]
\* what the sequential strategy returns for two test cases on one enabled target
FirstPassesAll == [s \in StageNames |-> "success"]
SecondStopsNotEnabled ==
    [s \in StageNames |-> CASE s = "pre_fetcher" -> "success"
                            [] s = "pre_validation" -> "failed"
                            [] OTHER -> "not-executed"]
SameEnabledTarget ==
    /\ Len(test_cases) = 2
    /\ TargetOf(test_cases[1]) = TargetOf(test_cases[2])
    /\ remote[TargetId(test_cases[1])].initially = "true"

\* C28: for two test cases on the same initially enabled virtual service and
\* a remote that applies every update, the threading strategy returns for each
\* test case the per-stage statuses the sequential strategy returns: the first
\* passes all four stages, the second fails pre-validation as not enabled, and
\* no second update is sent.
C28_ThreadingMatchesSequential ==
    (phase = "returned" /\ method = "threading" /\ SameEnabledTarget) =>
        /\ StatusesOf(1) = FirstPassesAll
        /\ StatusesOf(2) = SecondStopsNotEnabled
        /\ test_results[2]["pre_validation"].error = "Virtual service is not enabled"
        /\ UpdatesOf(2) = {}

\* the sequential strategy on the same batch
SequentialBaseline ==
    (phase = "returned" /\ method = "sequential" /\ SameEnabledTarget) =>
        /\ StatusesOf(1) = FirstPassesAll
        /\ StatusesOf(2) = SecondStopsNotEnabled
        /\ test_results[2]["pre_validation"].error = "Virtual service is not enabled"
        /\ UpdatesOf(2) = {}

\* the methods of the API client that only read
ReadOps == {"get_tenants", "get_virtual_services", "get_service_engines",
            "get_virtual_service_by_name", "get_virtual_service_by_uuid"}
\* test case j found, by its target name, an enabled virtual service whose
\* identifier is id
FoundEnabledAt(j, id) ==
    /\ Recorded(j, "pre_validation")
    /\ "virtual_service" \in DOMAIN test_results[j]["pre_validation"]
    /\ FoundBy(j).name = TargetOf(test_cases[j])
    /\ FoundBy(j).enabled = "true"
    /\ FoundBy(j).uuid = id

\* C30: the only mutation a batch sends to the remote API is an update with
\* payload enabled=false, and only to the identifier of a virtual service
\* that some test case of the batch found by its target name with
\* enabled=true; nothing else is modified and no request sets enabled to true.
C30_OnlyDisablesFoundEnabledTargets ==
    \A i \in Cases : \A k \in 1..Len(calls[i]) :
        \/ calls[i][k].op \in ReadOps
        \/ /\ calls[i][k].op = "update_virtual_service"
           /\ calls[i][k].payload = "false"
           /\ \E j \in Cases : FoundEnabledAt(j, calls[i][k].uuid)

====
